---- MODULE Spec2Model ----
(***************************************************************************)
(* SQL Lint Pro (src/sql_lint.py): the lint rule engine, the custom-rule   *)
(* store kept in the session, the lint orchestrator and the auto-fix       *)
(* wrapper.                                                                *)
(*                                                                         *)
(* A Python str is a sequence of one-character strings, <<"a", ";">>; a    *)
(* Finding is a record with the fields of the dataclass.  An f-string is   *)
(* a record [tpl, args]: the literal template and the values it            *)
(* interpolates, in order.                                                 *)
(***************************************************************************)
EXTENDS Integers, Sequences, FiniteSets, TLC

VARIABLES
    session_state,  \* st.session_state: whether "custom_rules" is set, and the list under it
    last_op,        \* the last store operation (Add Rule / Delete k), with its argument
    call,           \* what the current script run executed, with its inputs
    result          \* what that execution returned (or that it raised)

vars == <<session_state, last_op, call, result>>

----------------------------------------------------------------------------
(* Characters and Python's str methods.                                    *)

UpperLetters ==
    <<"A", "B", "C", "D", "E", "F", "G", "H", "I", "J", "K", "L", "M",
      "N", "O", "P", "Q", "R", "S", "T", "U", "V", "W", "X", "Y", "Z">>

LowerLetters ==
    <<"a", "b", "c", "d", "e", "f", "g", "h", "i", "j", "k", "l", "m",
      "n", "o", "p", "q", "r", "s", "t", "u", "v", "w", "x", "y", "z">>

DigitChars == <<"0", "1", "2", "3", "4", "5", "6", "7", "8", "9">>

UpperSet == {UpperLetters[i] : i \in 1..Len(UpperLetters)}
LowerSet == {LowerLetters[i] : i \in 1..Len(LowerLetters)}
DigitSet == {DigitChars[i] : i \in 1..Len(DigitChars)}

\* [A-Za-z]
AsciiLetters == UpperSet \cup LowerSet

\* \w restricted to ASCII: letters, digits and the underscore.
WordChars == AsciiLetters \cup DigitSet \cup {"_"}

\* The characters str.strip() removes and \s matches (those the model's texts use).
Whitespace == {" ", "\t", "\n", "\r", "\f"}

\* The line boundaries of str.splitlines() (those the model's texts use).
LineBreaks == {"\n", "\r", "\f"}

ToLowerMap ==
    [c \in UpperSet |-> LowerLetters[CHOOSE i \in 1..Len(UpperLetters) : UpperLetters[i] = c]]

ToUpperMap ==
    [c \in LowerSet |-> UpperLetters[CHOOSE i \in 1..Len(LowerLetters) : LowerLetters[i] = c]]

\* The code points of the characters that strings compared with < are made of.
OrdMap ==
    [c \in AsciiLetters \cup DigitSet |->
        IF c \in DigitSet
        THEN 47 + (CHOOSE i \in 1..Len(DigitChars) : DigitChars[i] = c)
        ELSE IF c \in UpperSet
        THEN 64 + (CHOOSE i \in 1..Len(UpperLetters) : UpperLetters[i] = c)
        ELSE 96 + (CHOOSE i \in 1..Len(LowerLetters) : LowerLetters[i] = c)]

char_lower(c) == IF c \in UpperSet THEN ToLowerMap[c] ELSE c
char_upper(c) == IF c \in LowerSet THEN ToUpperMap[c] ELSE c

str_lower(s) == [i \in 1..Len(s) |-> char_lower(s[i])]
str_upper(s) == [i \in 1..Len(s) |-> char_upper(s[i])]

\* s < t for Python strings: by code point, a proper prefix first.
RECURSIVE str_less(_, _)
str_less(s, t) ==
    IF t = <<>> THEN FALSE
    ELSE IF s = <<>> THEN TRUE
    ELSE IF Head(s) = Head(t) THEN str_less(Tail(s), Tail(t))
    ELSE OrdMap[Head(s)] < OrdMap[Head(t)]

\* s.rstrip(): up to the last character that is not whitespace.
str_rstrip(s) ==
    LET keep == {i \in 1..Len(s) : s[i] \notin Whitespace}
    IN  IF keep = {} THEN <<>>
        ELSE SubSeq(s, 1, CHOOSE i \in keep : \A j \in (i + 1)..Len(s) : s[j] \in Whitespace)

\* s.lstrip(): from the first character that is not whitespace.
str_lstrip(s) ==
    LET keep == {i \in 1..Len(s) : s[i] \notin Whitespace}
    IN  IF keep = {} THEN <<>>
        ELSE SubSeq(s, CHOOSE i \in keep : \A j \in 1..(i - 1) : s[j] \in Whitespace, Len(s))

str_strip(s) == str_lstrip(str_rstrip(s))

str_endswith(s, c) == s # <<>> /\ s[Len(s)] = c

\* sub occurs in s at the 0-based offset k.
occurs_at(s, sub, k) ==
    /\ k + Len(sub) <= Len(s)
    /\ \A j \in 1..Len(sub) : s[k + j] = sub[j]

\* s.find(sub): the lowest 0-based offset of sub in s, -1 when there is none.
str_find(s, sub) ==
    LET hits == {k \in 0..Len(s) : occurs_at(s, sub, k)}
    IN  IF hits = {} THEN -1 ELSE CHOOSE k \in hits : \A h \in hits : k <= h

\* str(n) for n >= 0.
RECURSIVE int_str(_)
int_str(n) ==
    IF n < 10 THEN <<DigitChars[n + 1]>>
    ELSE Append(int_str(n \div 10), DigitChars[(n % 10) + 1])

Max2(a, b) == IF a >= b THEN a ELSE b
Min2(a, b) == IF a <= b THEN a ELSE b

\* The k-th smallest element of a finite set of integers.
nth_smallest(S, k) == CHOOSE x \in S : Cardinality({y \in S : y < x}) = k - 1

\* The positions where a line boundary of s ends: a "\r\n" is one boundary,
\* which ends at its "\n".
boundary_ends(s) ==
    {i \in 1..Len(s) :
        s[i] \in LineBreaks /\ ~(s[i] = "\r" /\ i < Len(s) /\ s[i + 1] = "\n")}

\* The position where the boundary that ends at e starts.
boundary_start(s, e) ==
    IF s[e] = "\n" /\ e > 1 /\ s[e - 1] = "\r" THEN e - 1 ELSE e

\* s.splitlines(): the text between the boundaries; a boundary that ends the
\* text opens no further line.
str_splitlines(s) ==
    LET ends == boundary_ends(s)
        n    == Cardinality(ends)
        from(k) == IF k = 1 THEN 1 ELSE nth_smallest(ends, k - 1) + 1
        closed == [k \in 1..n |->
                      SubSeq(s, from(k), boundary_start(s, nth_smallest(ends, k)) - 1)]
    IN  IF from(n + 1) <= Len(s)
        THEN Append(closed, SubSeq(s, from(n + 1), Len(s)))
        ELSE closed

\* _lines(s): s.splitlines() or [""]
_lines(s) ==
    LET ls == str_splitlines(s) IN IF ls = <<>> THEN << <<>> >> ELSE ls

\* re.findall(r"[A-Za-z]+", line): the maximal runs of ASCII letters, left to right.
extract_words(line) ==
    LET is_letter(i) == i >= 1 /\ i <= Len(line) /\ line[i] \in AsciiLetters
        starts == {i \in 1..Len(line) : is_letter(i) /\ ~is_letter(i - 1)}
        stop(i) == CHOOSE j \in i..Len(line) :
                       /\ ~is_letter(j + 1)
                       /\ \A m \in i..j : is_letter(m)
    IN  [k \in 1..Cardinality(starts) |->
            SubSeq(line, nth_smallest(starts, k), stop(nth_smallest(starts, k)))]

\* The concatenation of the lists of a list, in order (what a loop's appends build).
RECURSIVE flatten(_)
flatten(ss) == IF ss = <<>> THEN <<>> ELSE Head(ss) \o flatten(Tail(ss))

----------------------------------------------------------------------------
(* MODELS                                                                  *)

\* An f-string (or a literal): the template and the interpolated values.
Text(tpl, args) == [tpl |-> tpl, args |-> args]

\* suggestion = None
None == [tpl |-> "None", args |-> <<>>]

Finding(rule_id, message, severity, line, col, suggestion) ==
    [rule_id |-> rule_id, message |-> message, severity |-> severity,
     line |-> line, col |-> col, suggestion |-> suggestion]

SQL_KEYWORDS ==
    {<<"s", "e", "l", "e", "c", "t">>,
     <<"f", "r", "o", "m">>,
     <<"w", "h", "e", "r", "e">>,
     <<"g", "r", "o", "u", "p">>,
     <<"o", "r", "d", "e", "r">>,
     <<"l", "i", "m", "i", "t">>,
     <<"j", "o", "i", "n">>,
     <<"i", "n", "n", "e", "r">>,
     <<"l", "e", "f", "t">>,
     <<"r", "i", "g", "h", "t">>,
     <<"f", "u", "l", "l">>,
     <<"o", "u", "t", "e", "r">>,
     <<"o", "n">>,
     <<"a", "n", "d">>,
     <<"o", "r">>,
     <<"i", "n", "s", "e", "r", "t">>,
     <<"i", "n", "t", "o">>,
     <<"u", "p", "d", "a", "t", "e">>,
     <<"s", "e", "t">>,
     <<"d", "e", "l", "e", "t", "e">>,
     <<"c", "r", "e", "a", "t", "e">>,
     <<"t", "a", "b", "l", "e">>,
     <<"h", "a", "v", "i", "n", "g">>,
     <<"d", "i", "s", "t", "i", "n", "c", "t">>,
     <<"u", "n", "i", "o", "n">>,
     <<"a", "l", "l">>,
     <<"c", "a", "s", "e">>,
     <<"w", "h", "e", "n">>,
     <<"t", "h", "e", "n">>,
     <<"e", "l", "s", "e">>,
     <<"e", "n", "d">>,
     <<"e", "x", "i", "s", "t", "s">>,
     <<"i", "n">>,
     <<"i", "s">>,
     <<"n", "u", "l", "l">>,
     <<"l", "i", "k", "e">>,
     <<"w", "i", "t", "h">>,
     <<"o", "v", "e", "r">>,
     <<"p", "a", "r", "t", "i", "t", "i", "o", "n">>}

----------------------------------------------------------------------------
(* difflib.get_close_matches, as rule_typo_keywords calls it.              *)
(* SequenceMatcher holds a = the candidate and b = the word; no element    *)
(* is junk (no isjunk, and autojunk needs 200 elements).                   *)

\* SequenceMatcher.find_longest_match: a longest block of a[alo:ahi] and
\* b[blo:bhi]; of these the one that starts earliest in a, then earliest in b.
\* runs_at(p, k): the k elements from the 0-based (i, j) = p lie in the two
\* ranges and are equal.
find_longest_match(a, b, alo, ahi, blo, bhi) ==
    LET pairs == (alo..(ahi - 1)) \X (blo..(bhi - 1))
        sizes == 0..Min2(ahi - alo, bhi - blo)
        runs_at(p, k) == \A d \in 0..(k - 1) :
                             /\ p[1] + d < ahi
                             /\ p[2] + d < bhi
                             /\ a[p[1] + d + 1] = b[p[2] + d + 1]
        best  == CHOOSE k \in sizes :
                     /\ k = 0 \/ \E p \in pairs : runs_at(p, k)
                     /\ \A p \in pairs : ~runs_at(p, k + 1)
    IN  IF best = 0 THEN [i |-> alo, j |-> blo, size |-> 0]
        ELSE LET top == {p \in pairs : runs_at(p, best)}
                 i   == CHOOSE x \in {p[1] : p \in top} : \A p \in top : x <= p[1]
                 j   == CHOOSE y \in {p[2] : p \in {q \in top : q[1] = i}} :
                            \A p \in {q \in top : q[1] = i} : y <= p[2]
             IN  [i |-> i, j |-> j, size |-> best]

\* The summed sizes of SequenceMatcher.get_matching_blocks: the longest block,
\* then the same to its left and to its right.
RECURSIVE matching_size(_, _, _, _, _, _)
matching_size(a, b, alo, ahi, blo, bhi) ==
    LET m == find_longest_match(a, b, alo, ahi, blo, bhi)
    IN  IF m.size = 0 THEN 0
        ELSE m.size
             + matching_size(a, b, alo, m.i, blo, m.j)
             + matching_size(a, b, m.i + m.size, ahi, m.j + m.size, bhi)

\* The number of i <= Len(s) with s[i] = c.
count_char(s, c) == Cardinality({i \in 1..Len(s) : s[i] = c})

\* The matches SequenceMatcher.quick_ratio counts: an element of a counts while
\* b has copies of it left, so the k-th copy of a character in a counts when b
\* holds at least k of it (the multiset intersection).
quick_matches(a, b) ==
    Cardinality({i \in 1..Len(a) :
        Cardinality({j \in 1..i : a[j] = a[i]}) <= count_char(b, a[i])})

\* The cutoff 0.86 of get_close_matches(..., cutoff=0.86), as a fraction.
CUTOFF_NUM == 86
CUTOFF_DEN == 100

\* _calculate_ratio(matches, length) >= cutoff, for 2.0 * matches / length.
ratio_at_least_cutoff(matches, length) ==
    IF length = 0 THEN TRUE
    ELSE 2 * matches * CUTOFF_DEN >= CUTOFF_NUM * length

\* SequenceMatcher.ratio() counts these matches of the candidate x and the word.
ratio_matches(x, word) == matching_size(x, word, 0, Len(x), 0, Len(word))

\* x passes the three tests of get_close_matches, cheapest first.
is_close(x, word) ==
    LET length == Len(x) + Len(word)
    IN  /\ ratio_at_least_cutoff(Min2(Len(x), Len(word)), length)    \* real_quick_ratio
        /\ ratio_at_least_cutoff(quick_matches(x, word), length)      \* quick_ratio
        /\ ratio_at_least_cutoff(ratio_matches(x, word), length)      \* ratio

\* (score, x) of one candidate is below that of another: the tuples nlargest compares.
scored_less(x, y, word) ==
    LET sx == ratio_matches(x, word) * (Len(y) + Len(word))
        sy == ratio_matches(y, word) * (Len(x) + Len(word))
    IN  sx < sy \/ (sx = sy /\ str_less(x, y))

\* get_close_matches(word, possibilities, n=1, cutoff=0.86): the best-scoring
\* candidate that passes, as a list of at most one.
get_close_matches(word, possibilities) ==
    LET close == {x \in possibilities : is_close(x, word)}
    IN  IF close = {} THEN <<>>
        ELSE <<CHOOSE x \in close : \A y \in close : y = x \/ scored_less(y, x, word)>>

----------------------------------------------------------------------------
(* BUILT-IN RULES                                                          *)

\* rule_semicolon with the line taken as the number of "\n" plus one.
rule_semicolon_counts_newlines(sql, enabled) ==
    IF ~enabled \/ str_strip(sql) = <<>> THEN <<>>
    ELSE IF ~str_endswith(str_strip(sql), ";")
    THEN LET last_line == count_char(sql, "\n") + 1
         IN  <<Finding(<<"L", "0", "0", "1">>, Text("Statement should end with ';'", <<>>),
                       "warning", last_line, 1, Text("Add trailing ';'", <<>>))>>
    ELSE <<>>

\* rule_semicolon with the ';' looked for at the end of the untrimmed text.
rule_semicolon_untrimmed(sql, enabled) ==
    IF ~enabled \/ str_strip(sql) = <<>> THEN <<>>
    ELSE IF ~str_endswith(sql, ";")
    THEN LET last_line == Len(_lines(sql))
         IN  <<Finding(<<"L", "0", "0", "1">>, Text("Statement should end with ';'", <<>>),
                       "warning", last_line, 1, Text("Add trailing ';'", <<>>))>>
    ELSE <<>>

\* rule_semicolon(sql, enabled)
rule_semicolon(sql, enabled) ==
    IF ~enabled \/ str_strip(sql) = <<>> THEN <<>>
    ELSE IF ~str_endswith(str_strip(sql), ";")
    THEN LET last_line == Len(_lines(sql))
         IN  <<Finding(<<"L", "0", "0", "1">>, Text("Statement should end with ';'", <<>>),
                       "warning", last_line, 1, Text("Add trailing ';'", <<>>))>>
    ELSE <<>>

SelectWord == <<"s", "e", "l", "e", "c", "t">>

\* (?i)\bselect\s+\* matches line at the 0-based offset k: a word boundary,
\* the letters of select in either case, at least one \s, then the star.
select_star_at(line, k) ==
    /\ k + Len(SelectWord) <= Len(line)
    /\ str_lower(SubSeq(line, k + 1, k + Len(SelectWord))) = SelectWord
    /\ (k = 0 \/ line[k] \notin WordChars)
    /\ \E e \in (k + Len(SelectWord) + 2)..Len(line) :
          /\ line[e] = "*"
          /\ \A j \in (k + Len(SelectWord) + 1)..(e - 1) : line[j] \in Whitespace

\* re.search(r"(?i)\bselect\s+\*", line) is not None
search_select_star(line) == \E k \in 0..Len(line) : select_star_at(line, k)

\* The column without the step from the 0-based offset to the 1-based column.
select_star_col_zero_based(line) == Max2(1, str_find(str_lower(line), SelectWord))

\* The column rule_no_select_star reports: max(1, line.lower().find("select") + 1)
select_star_col(line) == Max2(1, str_find(str_lower(line), SelectWord) + 1)

\* rule_no_select_star(sql, enabled)
rule_no_select_star(sql, enabled) ==
    IF ~enabled THEN <<>>
    ELSE LET lines == _lines(sql)
         IN  flatten([i \in 1..Len(lines) |->
                 IF search_select_star(lines[i])
                 THEN <<Finding(<<"L", "0", "0", "2">>,
                                Text("Avoid SELECT * (enumerate columns)", <<>>),
                                "error", i, select_star_col(lines[i]),
                                Text("List explicit columns", <<>>))>>
                 ELSE <<>>])

\* The test of rule_uppercase_keywords on a word: w.lower() in SQL_KEYWORDS and w != w.upper()
uppercase_flags(w) == str_lower(w) \in SQL_KEYWORDS /\ w # str_upper(w)

\* rule_uppercase_keywords(sql, enabled)
rule_uppercase_keywords(sql, enabled) ==
    IF ~enabled THEN <<>>
    ELSE LET lines == _lines(sql)
             of_line(i) ==
                 LET ws == extract_words(lines[i])
                 IN  flatten([k \in 1..Len(ws) |->
                         IF uppercase_flags(ws[k])
                         THEN <<Finding(<<"L", "0", "0", "3">>,
                                        Text("Keyword '{w}' should be UPPERCASE", <<ws[k]>>),
                                        "info", i, Max2(1, str_find(lines[i], ws[k]) + 1),
                                        Text("Use '{w.upper()}'", <<str_upper(ws[k])>>))>>
                         ELSE <<>>])
         IN  flatten([i \in 1..Len(lines) |-> of_line(i)])

\* The first test without the keyword test.
typo_candidate_by_length(w) == Len(str_lower(w)) >= 3

\* The first test of rule_typo_keywords on a word: low not in SQL_KEYWORDS and len(low) >= 3
typo_candidate(w) == str_lower(w) \notin SQL_KEYWORDS /\ Len(str_lower(w)) >= 3

\* The word is flagged: it is a candidate and get_close_matches finds a keyword.
typo_flags(w) == typo_candidate(w) /\ get_close_matches(str_lower(w), SQL_KEYWORDS) # <<>>

\* rule_typo_keywords(sql, enabled)
rule_typo_keywords(sql, enabled) ==
    IF ~enabled THEN <<>>
    ELSE LET lines == _lines(sql)
             of_word(i, w) ==
                 IF ~typo_candidate(w) THEN <<>>
                 ELSE LET close == get_close_matches(str_lower(w), SQL_KEYWORDS)
                      IN  IF close = <<>> THEN <<>>
                          ELSE <<Finding(<<"L", "0", "0", "4">>,
                                    Text("Possible keyword typo '{w}' (did you mean '{close[0].upper()}')?",
                                         <<w, str_upper(close[1])>>),
                                    "error", i, Max2(1, str_find(lines[i], w) + 1),
                                    Text("Replace with {close[0].upper()}", <<str_upper(close[1])>>))>>
             of_line(i) ==
                 LET ws == extract_words(lines[i])
                 IN  flatten([k \in 1..Len(ws) |-> of_word(i, ws[k])])
         IN  flatten([i \in 1..Len(lines) |-> of_line(i)])

----------------------------------------------------------------------------
(* CUSTOM RULES                                                            *)
(* A custom rule is [pattern, message, severity].  The patterns the model  *)
(* adds are made of literal characters, "." and "(": re compiles the       *)
(* first two and rejects an unclosed "(" (re.error: missing ), unterminated*)
(* subpattern).                                                            *)

\* re.compile(pattern) raises re.error.
re_error(pattern) ==
    /\ \E i \in 1..Len(pattern) : pattern[i] = "("
    /\ \A i \in 1..Len(pattern) : pattern[i] # ")"

\* The pattern matches line at the 0-based offset k, under re.IGNORECASE.
re_match_at(pattern, line, k) ==
    /\ k + Len(pattern) <= Len(line)
    /\ \A j \in 1..Len(pattern) :
          \/ pattern[j] = "." /\ line[k + j] # "\n"
          \/ pattern[j] # "." /\ char_lower(pattern[j]) = char_lower(line[k + j])

\* re.search(pattern, line, re.IGNORECASE): m.start() of the leftmost match, -1 for None.
re_search(pattern, line) ==
    LET hits == {k \in 0..Len(line) : re_match_at(pattern, line, k)}
    IN  IF hits = {} THEN -1 ELSE CHOOSE k \in hits : \A h \in hits : k <= h

\* The session state: whether the key "custom_rules" is set, and the list under it.
NoRules == [has_rules |-> FALSE, custom_rules |-> <<>>]

\* What a call returns: the value, or that an exception left it.
Returned(findings) == [raised |-> FALSE, findings |-> findings]
Raised == [raised |-> TRUE, findings |-> <<>>]

\* f"CUST{ridx+1}" for the 0-based ridx
cust_id(ridx) == <<"C", "U", "S", "T">> \o int_str(ridx + 1)

\* The findings of the rule at the 0-based ridx on every line of sql.
custom_rule_findings(sql, ridx, rule) ==
    LET lines == _lines(sql)
    IN  flatten([i \in 1..Len(lines) |->
            LET m == re_search(rule.pattern, lines[i])
            IN  IF m # -1
                THEN <<Finding(cust_id(ridx), Text(rule.message, <<>>), rule.severity,
                               i, Max2(1, m + 1), None)>>
                ELSE <<>>])

\* run_custom_rules(sql), reading st.session_state: re.search raises on the
\* first rule whose pattern does not compile, and nothing catches it.
run_custom_rules(sql, state) ==
    IF ~state.has_rules THEN Returned(<<>>)
    ELSE LET store == state.custom_rules
         IN  IF \E k \in 1..Len(store) : re_error(store[k].pattern)
             THEN Raised
             ELSE Returned(flatten([k \in 1..Len(store) |->
                               custom_rule_findings(sql, k - 1, store[k])]))

----------------------------------------------------------------------------
(* LINT ORCHESTRATOR                                                       *)

\* severity_rank.get(f.severity, 9)
severity_rank(severity) ==
    CASE severity = "error" -> 0
      [] severity = "warning" -> 1
      [] severity = "info" -> 2
      [] OTHER -> 9

\* The sort key without the rule id: (severity rank, line).
sort_key_less_without_rule_id(f, g) ==
    \/ severity_rank(f.severity) < severity_rank(g.severity)
    \/ /\ severity_rank(f.severity) = severity_rank(g.severity)
       /\ f.line < g.line

\* key(f) < key(g) for the sort key (severity rank, line, rule_id).
sort_key_less(f, g) ==
    \/ severity_rank(f.severity) < severity_rank(g.severity)
    \/ /\ severity_rank(f.severity) = severity_rank(g.severity)
       /\ \/ f.line < g.line
          \/ f.line = g.line /\ str_less(f.rule_id, g.rule_id)

\* f placed in the sorted list, behind every element that does not sort after it.
sort_insert(sorted, f) ==
    LET n == Cardinality({i \in 1..Len(sorted) : ~sort_key_less(f, sorted[i])})
    IN  SubSeq(sorted, 1, n) \o <<f>> \o SubSeq(sorted, n + 1, Len(sorted))

\* list.sort(key=...): stable, so equal keys keep their order.
RECURSIVE list_sort(_)
list_sort(fs) ==
    IF fs = <<>> THEN <<>>
    ELSE sort_insert(list_sort(SubSeq(fs, 1, Len(fs) - 1)), fs[Len(fs)])

\* The built-in findings with the typo rule under the flag of the casing rule.
builtin_findings_typo_under_casing_flag(sql, rules) ==
    rule_semicolon(sql, rules.semicolon)
        \o rule_no_select_star(sql, rules.select_star)
        \o rule_uppercase_keywords(sql, rules.upper_keywords)
        \o rule_typo_keywords(sql, rules.upper_keywords)

\* The findings of the four built-in rules, in the order run_lint appends them.
builtin_findings(sql, rules) ==
    rule_semicolon(sql, rules.semicolon)
        \o rule_no_select_star(sql, rules.select_star)
        \o rule_uppercase_keywords(sql, rules.upper_keywords)
        \o rule_typo_keywords(sql, rules.typo_keywords)

\* A list without the later copies of a finding it already holds.
RECURSIVE without_duplicates(_)
without_duplicates(fs) ==
    IF fs = <<>> THEN <<>>
    ELSE LET front == without_duplicates(SubSeq(fs, 1, Len(fs) - 1))
         IN  IF \E i \in 1..Len(front) : front[i] = fs[Len(fs)]
             THEN front
             ELSE Append(front, fs[Len(fs)])

\* run_lint that drops repeated findings.
run_lint_deduplicated(sql, rules, state) ==
    LET custom == run_custom_rules(sql, state)
    IN  IF custom.raised THEN Raised
        ELSE Returned(list_sort(without_duplicates(builtin_findings(sql, rules) \o custom.findings)))

\* run_lint(sql, rules)
run_lint(sql, rules, state) ==
    LET custom == run_custom_rules(sql, state)
    IN  IF custom.raised THEN Raised
        ELSE Returned(list_sort(builtin_findings(sql, rules) \o custom.findings))

----------------------------------------------------------------------------
(* AUTO-FIX                                                                *)
(* sqlparse.format is not part of the program.  It stands here as one of   *)
(* two reformatters, both idempotent: "keep" changes the keyword case      *)
(* only, "strip" also strips the text (as sqlparse does under reindent).   *)

\* keyword_case="upper": every word that is a keyword, in upper case.
upper_keywords(sql) ==
    LET is_letter(i) == i >= 1 /\ i <= Len(sql) /\ sql[i] \in AsciiLetters
        first(i) == CHOOSE a \in 1..i :
                        /\ \A m \in a..i : is_letter(m)
                        /\ ~is_letter(a - 1)
        last(i)  == CHOOSE b \in i..Len(sql) :
                        /\ \A m \in i..b : is_letter(m)
                        /\ ~is_letter(b + 1)
    IN  [i \in 1..Len(sql) |->
            IF is_letter(i) /\ str_lower(SubSeq(sql, first(i), last(i))) \in SQL_KEYWORDS
            THEN char_upper(sql[i])
            ELSE sql[i]]

Reformatters == {"keep", "strip"}

\* sqlparse.format(sql, keyword_case="upper" if upper else None, reindent=True, indent_width=2)
reformat(formatter, upper, sql) ==
    LET cased == IF upper THEN upper_keywords(sql) ELSE sql
    IN  IF formatter = "strip" THEN str_strip(cased) ELSE cased

\* auto_fix that appends without looking for a ';' at the end.
auto_fix_always_appends(formatter, sql, upper, semicolon) ==
    LET formatted == reformat(formatter, upper, sql)
    IN  IF semicolon
        THEN str_rstrip(formatted) \o <<";", "\n">>
        ELSE formatted

\* auto_fix(sql, upper=..., semicolon=...)
auto_fix(formatter, sql, upper, semicolon) ==
    LET formatted == reformat(formatter, upper, sql)
    IN  IF semicolon /\ ~str_endswith(str_strip(formatted), ";")
        THEN str_rstrip(formatted) \o <<";", "\n">>
        ELSE formatted

----------------------------------------------------------------------------
(* The inputs.                                                             *)

\* The rules the sidebar adds: a literal pattern, the empty pattern (the text
\* input left blank), a pattern with a wildcard, and a pattern re rejects.
NewRules ==
    {[pattern |-> <<"s", "e", "l", "e", "c", "t">>, message |-> "Avoid SELECT", severity |-> "error"],
     [pattern |-> <<>>, message |-> "Avoid DELETE without WHERE", severity |-> "info"],
     [pattern |-> <<"e", ".">>, message |-> "e and one more", severity |-> "warning"],
     [pattern |-> <<"(">>, message |-> "unclosed group", severity |-> "error"]}

\* The checkbox settings of the four built-in rules.
RuleFlags ==
    [semicolon : BOOLEAN, select_star : BOOLEAN, upper_keywords : BOOLEAN, typo_keywords : BOOLEAN]

\* The text the session lints and fixes: a typo, a SELECT *, a keyword
\* written twice in lower case, and no semicolon.
AppTexts ==
    {<<"S", "e", "l", "e", "c", "\n", "s", "e", "l", "e", "c", "t", " ", "*", "\n", "o", "n", " ", "o", "n">>}

\* The rules the session's form is filled with: the literal pattern, the
\* empty pattern and the pattern that does not compile.
FormRules ==
    {r \in NewRules : r.severity # "warning"}

\* The pieces the texts given to the single rules are made of.
Fragments ==
    {<<"s", "e", "l", "e", "c", "t", " ", "*">>,
     <<"S", "e", "l", "e", "c", "t">>,
     <<"s", "e", "l", "e", "c">>,
     <<"O", "N">>,
     <<"x">>,
     <<" ">>,
     <<"\n">>,
     <<"\r", "\n">>,
     <<"_">>,
     <<";">>}

\* The longest store, and the most fragments in a text.
MaxRules == 3
MaxFragments == 3

RECURSIVE TextsUpTo(_)
TextsUpTo(n) ==
    IF n = 0 THEN {<<>>}
    ELSE LET shorter == TextsUpTo(n - 1)
         IN  shorter \cup {t \o f : t \in shorter, f \in Fragments}

Texts == TextsUpTo(MaxFragments)

\* The stores run_custom_rules is given on its own: none, and each single rule.
SingleStores ==
    {NoRules} \cup {[has_rules |-> TRUE, custom_rules |-> <<r>>] : r \in NewRules}

----------------------------------------------------------------------------
(* The session: every interaction reruns the script top to bottom.  The    *)
(* store lives in st.session_state; the findings and the fixed text are    *)
(* locals of the run that computed them.                                   *)

NoOp == [op |-> "none"]
NoCall == [op |-> "none"]
NoResult == [raised |-> FALSE, findings |-> <<>>]

Init ==
    /\ session_state = NoRules
    /\ last_op = NoOp
    /\ call = NoCall
    /\ result = NoResult

\* The last rule moved to idx, then the list shortened by one.
list_pop_swap_last(store, idx) ==
    [j \in 1..(Len(store) - 1) |-> IF j = idx + 1 THEN store[Len(store)] ELSE store[j]]

\* custom_rules.pop(idx) for the 0-based idx
list_pop(store, idx) == SubSeq(store, 1, idx) \o SubSeq(store, idx + 2, Len(store))

\* The "Add Rule" handler: create the list when the key is unset, then append.
add_rule(state, rule) ==
    LET store == IF state.has_rules THEN state.custom_rules ELSE <<>>
    IN  [has_rules |-> TRUE, custom_rules |-> Append(store, rule)]

\* The "Delete k" handler of the rule at the 0-based idx.
delete_rule(state, idx) ==
    [has_rules |-> TRUE, custom_rules |-> list_pop(state.custom_rules, idx)]

\* "Add Rule" pressed with the three inputs of the form; the run lints nothing.
\* The code appends without limit; the store is explored up to MaxRules.
AddRule(rule) ==
    /\ Len(session_state.custom_rules) < MaxRules
    /\ session_state' = add_rule(session_state, rule)
    /\ last_op' = [op |-> "add", rule |-> rule]
    /\ call' = NoCall
    /\ result' = NoResult

\* A "Delete k" button pressed: they are drawn only for a set, non-empty list.
DeleteRule(idx) ==
    /\ session_state.has_rules
    /\ session_state.custom_rules # <<>>
    /\ idx \in 0..(Len(session_state.custom_rules) - 1)
    /\ session_state' = delete_rule(session_state, idx)
    /\ last_op' = [op |-> "delete", idx |-> idx]
    /\ call' = NoCall
    /\ result' = NoResult

\* "Validate & Lint" pressed: run_lint on the text area and the checkboxes,
\* under the session as the run found it.
\* The run discards whatever the run before showed.
Lint(sql, rules) ==
    /\ call' = [op |-> "run_lint", sql |-> sql, rules |-> rules, session |-> session_state]
    /\ result' = run_lint(sql, rules, session_state)
    /\ UNCHANGED <<session_state, last_op>>

\* "Auto-Fix SQL" pressed: auto_fix on the text area and the two checkboxes.
AutoFix(formatter, sql, upper, semicolon) ==
    /\ call' = [op |-> "auto_fix", sql |-> sql, formatter |-> formatter,
                upper |-> upper, semicolon |-> semicolon]
    /\ result' = [raised |-> FALSE, findings |-> <<>>,
                  text |-> auto_fix(formatter, sql, upper, semicolon)]
    /\ UNCHANGED <<session_state, last_op>>

\* A rerun with no button pressed (a widget changed): nothing is shown.
Rerun ==
    /\ call' = NoCall
    /\ result' = NoResult
    /\ UNCHANGED <<session_state, last_op>>

Next ==
    \/ \E rule \in FormRules : AddRule(rule)
    \/ \E idx \in 0..(MaxRules - 1) : DeleteRule(idx)
    \/ \E sql \in AppTexts, rules \in RuleFlags : Lint(sql, rules)
    \/ \E formatter \in Reformatters, sql \in AppTexts, upper \in BOOLEAN, semicolon \in BOOLEAN :
           AutoFix(formatter, sql, upper, semicolon)
    \/ Rerun

Spec == Init /\ [][Next]_vars

----------------------------------------------------------------------------
(* The rules as functions: the text is drawn first, then one rule is       *)
(* applied to it.                                                          *)

InitInput ==
    /\ session_state = NoRules
    /\ last_op = NoOp
    /\ \E sql \in Texts : call = [op |-> "input", sql |-> sql]
    /\ result = NoResult

ApplySemicolon(enabled) ==
    /\ call.op = "input"
    /\ call' = [op |-> "rule_semicolon", sql |-> call.sql, enabled |-> enabled]
    /\ result' = Returned(rule_semicolon(call.sql, enabled))
    /\ UNCHANGED <<session_state, last_op>>

ApplyNoSelectStar(enabled) ==
    /\ call.op = "input"
    /\ call' = [op |-> "rule_no_select_star", sql |-> call.sql, enabled |-> enabled]
    /\ result' = Returned(rule_no_select_star(call.sql, enabled))
    /\ UNCHANGED <<session_state, last_op>>

ApplyUppercaseKeywords(enabled) ==
    /\ call.op = "input"
    /\ call' = [op |-> "rule_uppercase_keywords", sql |-> call.sql, enabled |-> enabled]
    /\ result' = Returned(rule_uppercase_keywords(call.sql, enabled))
    /\ UNCHANGED <<session_state, last_op>>

ApplyTypoKeywords(enabled) ==
    /\ call.op = "input"
    /\ call' = [op |-> "rule_typo_keywords", sql |-> call.sql, enabled |-> enabled]
    /\ result' = Returned(rule_typo_keywords(call.sql, enabled))
    /\ UNCHANGED <<session_state, last_op>>

\* run_custom_rules on the text, under a session that holds the given store.
ApplyCustomRules(store) ==
    /\ call.op = "input"
    /\ call' = [op |-> "run_custom_rules", sql |-> call.sql, store |-> store]
    /\ result' = run_custom_rules(call.sql, store)
    /\ UNCHANGED <<session_state, last_op>>

NextRules ==
    \/ \E enabled \in BOOLEAN : ApplySemicolon(enabled)
    \/ \E enabled \in BOOLEAN : ApplyNoSelectStar(enabled)
    \/ \E enabled \in BOOLEAN : ApplyUppercaseKeywords(enabled)
    \/ \E enabled \in BOOLEAN : ApplyTypoKeywords(enabled)
    \/ \E store \in SingleStores : ApplyCustomRules(store)

SpecRules == InitInput /\ [][NextRules]_vars

----------------------------------------------------------------------------
(* auto_fix applied to a text, and then to its own output with the same    *)
(* options.                                                                *)

FixFirst(formatter, upper, semicolon) ==
    /\ call.op = "input"
    /\ call' = [op |-> "auto_fix", sql |-> call.sql, formatter |-> formatter,
                upper |-> upper, semicolon |-> semicolon]
    /\ result' = [raised |-> FALSE, findings |-> <<>>,
                  text |-> auto_fix(formatter, call.sql, upper, semicolon)]
    /\ UNCHANGED <<session_state, last_op>>

FixAgain ==
    /\ call.op = "auto_fix"
    /\ call' = [op |-> "auto_fix_again", sql |-> result.text, formatter |-> call.formatter,
                upper |-> call.upper, semicolon |-> call.semicolon, first_sql |-> call.sql]
    /\ result' = [raised |-> FALSE, findings |-> <<>>,
                  text |-> auto_fix(call.formatter, result.text, call.upper, call.semicolon)]
    /\ UNCHANGED <<session_state, last_op>>

NextFix ==
    \/ \E formatter \in Reformatters, upper \in BOOLEAN, semicolon \in BOOLEAN :
           FixFirst(formatter, upper, semicolon)
    \/ FixAgain

SpecFix == InitInput /\ [][NextFix]_vars

----------------------------------------------------------------------------
(* The claims.                                                             *)

Range(seq) == {seq[i] : i \in 1..Len(seq)}

Count(seq, x) == Cardinality({i \in 1..Len(seq) : seq[i] = x})

LintReturned == call.op = "run_lint" /\ ~result.raised

CustPrefix == <<"C", "U", "S", "T">>

IsCustomId(rule_id) == Len(rule_id) > 4 /\ SubSeq(rule_id, 1, 4) = CustPrefix

BuiltinId(n) == <<"L", "0", "0", DigitChars[n + 1]>>

\* The rank of the claim: error < warning < info.
ClaimRank(severity) ==
    IF severity = "error" THEN 0 ELSE IF severity = "warning" THEN 1 ELSE 2

\* key(f) <= key(g) for the triple (severity rank, line, rule_id as a string).
KeyLeq(f, g) ==
    \/ ClaimRank(f.severity) < ClaimRank(g.severity)
    \/ /\ ClaimRank(f.severity) = ClaimRank(g.severity)
       /\ \/ f.line < g.line
          \/ f.line = g.line /\ (f.rule_id = g.rule_id \/ str_less(f.rule_id, g.rule_id))

\* C1: the list run_lint returns is sorted ascending by (severity rank, line,
\* rule_id): every finding's key is at most the key of the one after it.
C1_SortedByKey ==
    LintReturned =>
        \A i \in 1..(Len(result.findings) - 1) :
            KeyLeq(result.findings[i], result.findings[i + 1])

\* A returned list with the three severities and two neighbours that differ
\* in the rule id alone.
C1_Witness ==
    /\ LintReturned
    /\ {f.severity : f \in Range(result.findings)} = {"error", "warning", "info"}
    /\ \E i \in 1..(Len(result.findings) - 1) :
          /\ result.findings[i].severity = result.findings[i + 1].severity
          /\ result.findings[i].line = result.findings[i + 1].line
          /\ result.findings[i].rule_id # result.findings[i + 1].rule_id

\* The custom findings a pass would give if a rule whose pattern does not
\* compile gave none and the others kept their place and their id.
IsolatedCustomFindings(sql, state) ==
    flatten([k \in 1..Len(state.custom_rules) |->
        IF re_error(state.custom_rules[k].pattern) THEN <<>>
        ELSE custom_rule_findings(sql, k - 1, state.custom_rules[k])])

\* C2: a rule whose pattern is malformed does not abort the pass: run_lint
\* returns, that rule contributes nothing, and the findings of the built-in
\* rules and of the other custom rules are what they are without it.
C2_MalformedRuleIsolated ==
    call.op = "run_lint" =>
        /\ ~result.raised
        /\ result.findings =
               list_sort(builtin_findings(call.sql, call.rules)
                             \o IsolatedCustomFindings(call.sql, session_state))

RuleOps ==
    {"rule_semicolon", "rule_no_select_star", "rule_uppercase_keywords",
     "rule_typo_keywords", "run_custom_rules"}

\* C3: every finding of a built-in rule or of the custom-rule evaluator has
\* 1 <= line <= the number of lines of the text, and col >= 1.
C3_FindingInBounds ==
    call.op \in RuleOps =>
        \A f \in Range(result.findings) :
            /\ 1 <= f.line
            /\ f.line <= Len(_lines(call.sql))
            /\ f.col >= 1

\* A finding on the last line of a text that ends in a blank line.
C3_Witness ==
    /\ call.op \in RuleOps
    /\ Len(call.sql) >= 2
    /\ call.sql[Len(call.sql)] = "\n"
    /\ call.sql[Len(call.sql) - 1] = "\n"
    /\ \E f \in Range(result.findings) : f.line = Len(_lines(call.sql)) /\ f.line >= 2

\* The last character of the text that is not whitespace is a semicolon.
TrimmedEndsWithSemicolon(sql) ==
    \E i \in 1..Len(sql) :
        /\ sql[i] = ";"
        /\ \A j \in (i + 1)..Len(sql) : sql[j] \in Whitespace

\* C4: rule_semicolon returns nothing when disabled, when the text is empty
\* or whitespace only, or when the trimmed text ends with ';'; otherwise it
\* returns one finding: L001, warning, col 1, line = the number of lines.
C4_SemicolonRule ==
    call.op = "rule_semicolon" =>
        IF \/ ~call.enabled
           \/ \A i \in 1..Len(call.sql) : call.sql[i] \in Whitespace
           \/ TrimmedEndsWithSemicolon(call.sql)
        THEN result.findings = <<>>
        ELSE /\ Len(result.findings) = 1
             /\ result.findings[1].rule_id = BuiltinId(1)
             /\ result.findings[1].severity = "warning"
             /\ result.findings[1].col = 1
             /\ result.findings[1].line = Len(_lines(call.sql))

\* The finding of a text that ends in line boundaries, past its first line.
C4_Witness ==
    /\ call.op = "rule_semicolon"
    /\ call.sql # <<>>
    /\ call.sql[Len(call.sql)] = "\n"
    /\ Len(result.findings) = 1
    /\ result.findings[1].line >= 2

\* C5 (findings): a returned list holds custom findings only with the id
\* "CUST" + k for a position k of the store, and such a finding carries the
\* message and the severity of the rule at position k.
CustomFindingsMatchStore ==
    LintReturned =>
        \A f \in Range(result.findings) :
            IsCustomId(f.rule_id) =>
                \E k \in 1..Len(session_state.custom_rules) :
                    /\ f.rule_id = CustPrefix \o int_str(k)
                    /\ f.message = Text(session_state.custom_rules[k].message, <<>>)
                    /\ f.severity = session_state.custom_rules[k].severity

\* C5 (store): a step that adds appends the rule behind the rules held, in
\* their order; a step that deletes at idx removes the rule at idx and keeps
\* the others in their order.
StoreStep ==
    LET old == session_state.custom_rules
        new == session_state'.custom_rules
    IN  session_state' # session_state =>
            /\ last_op'.op \in {"add", "delete"}
            /\ last_op'.op = "add" => new = Append(old, last_op'.rule)
            /\ last_op'.op = "delete" =>
                   /\ Len(new) = Len(old) - 1
                   /\ \A j \in 1..Len(new) :
                          new[j] = IF j <= last_op'.idx THEN old[j] ELSE old[j + 1]

\* C5: after any sequence of adds and deletes from the empty store, the
\* custom findings of a pass carry the ids CUST1..CUSTn of the n rules held
\* and the message and severity of the rule at that position; add appends,
\* and delete removes exactly the rule at its index.
C5_IdsFollowStore == [][StoreStep /\ CustomFindingsMatchStore']_vars

\* A pass after the middle one of three rules was deleted: the two rules
\* left differ, and both give findings, under the ids CUST1 and CUST2.
C5_Witness ==
    /\ last_op.op = "delete"
    /\ last_op.idx = 1
    /\ Len(session_state.custom_rules) = 2
    /\ session_state.custom_rules[1] # session_state.custom_rules[2]
    /\ LintReturned
    /\ \A k \in 1..2 :
           \E f \in Range(result.findings) : f.rule_id = CustPrefix \o int_str(k)

\* The reformatter returns what it has formatted unchanged.
ReformatIdempotentOn(formatter, upper, sql) ==
    reformat(formatter, upper, reformat(formatter, upper, sql))
        = reformat(formatter, upper, sql)

\* C6 as stated: with ensure_semicolon, and a reformatter that is idempotent
\* on what it has formatted, auto_fix of auto_fix's output is that output.
C6_Idempotent ==
    (/\ call.op = "auto_fix_again"
     /\ call.semicolon
     /\ ReformatIdempotentOn(call.formatter, call.upper, call.first_sql)
     /\ ReformatIdempotentOn(call.formatter, call.upper, call.sql))
        => result.text = call.sql

\* C6 amended: with ensure_semicolon, auto_fix of auto_fix's output is that
\* output whenever the reformatter returns that output unchanged.
C6_IdempotentOnFixedPoint ==
    (/\ call.op = "auto_fix_again"
     /\ call.semicolon
     /\ reformat(call.formatter, call.upper, call.sql) = call.sql)
        => result.text = call.sql

\* A second pass over a text the first pass appended ";" and a newline to.
C6_Witness ==
    /\ call.op = "auto_fix_again"
    /\ call.semicolon
    /\ reformat(call.formatter, call.upper, call.sql) = call.sql
    /\ ~TrimmedEndsWithSemicolon(reformat(call.formatter, call.upper, call.first_sql))
    /\ Len(call.sql) >= 3
    /\ SubSeq(call.sql, Len(call.sql) - 1, Len(call.sql)) = <<";", "\n">>
    /\ result.text = call.sql

AllDisabled ==
    [semicolon |-> FALSE, select_star |-> FALSE, upper_keywords |-> FALSE, typo_keywords |-> FALSE]

CustomPart(findings) == SelectSeq(findings, LAMBDA f : IsCustomId(f.rule_id))

\* C7: a returned list holds a finding L001, L002, L003 or L004 only if the
\* flag of that rule is set, and its custom findings are those of the pass
\* with the four flags off, whatever the flags are.
C7_FlagsGateBuiltinsOnly ==
    LintReturned =>
        /\ \A f \in Range(result.findings) :
              /\ f.rule_id = BuiltinId(1) => call.rules.semicolon
              /\ f.rule_id = BuiltinId(2) => call.rules.select_star
              /\ f.rule_id = BuiltinId(3) => call.rules.upper_keywords
              /\ f.rule_id = BuiltinId(4) => call.rules.typo_keywords
        /\ CustomPart(result.findings)
               = CustomPart(run_lint(call.sql, AllDisabled, session_state).findings)

\* A pass with the four flags off that returns custom findings.
C7_Witness ==
    /\ LintReturned
    /\ call.rules = AllDisabled
    /\ result.findings # <<>>

\* The words of every line of the text, as the two keyword rules extract them.
WordsOf(sql) ==
    UNION {Range(extract_words(_lines(sql)[i])) : i \in 1..Len(_lines(sql))}

\* C8: the typo rule reports no word whose lower case is a keyword and no
\* word of fewer than 3 characters, and no word is flagged by both the
\* casing rule and the typo rule.
C8_TypoSkipsKeywordsAndShortWords ==
    /\ call.op = "rule_typo_keywords" =>
           \A f \in Range(result.findings) :
               /\ Len(f.message.args[1]) >= 3
               /\ str_lower(f.message.args[1]) \notin SQL_KEYWORDS
    /\ call.op \in {"rule_typo_keywords", "rule_uppercase_keywords"} =>
           \A w \in WordsOf(call.sql) : ~(uppercase_flags(w) /\ typo_flags(w))

\* A text with a word the casing rule flags, and a typo finding.
C8_Witness ==
    /\ call.op = "rule_typo_keywords"
    /\ result.findings # <<>>
    /\ \E w \in WordsOf(call.sql) : uppercase_flags(w)

\* Where the leftmost match of (?i)\bselect\s+\* starts, 0-based.
MatchStart(line) ==
    CHOOSE k \in 0..Len(line) :
        select_star_at(line, k) /\ \A h \in 0..(k - 1) : ~select_star_at(line, h)

\* Where the letters of select first occur in the line, in either case, 0-based.
FirstSelectText(line) ==
    CHOOSE k \in 0..Len(line) :
        /\ str_lower(SubSeq(line, k + 1, k + 6)) = SelectWord
        /\ \A h \in 0..(k - 1) : str_lower(SubSeq(line, h + 1, h + 6)) # SelectWord

\* The lines of the text that have a match, by number.
MatchingLines(sql) ==
    {i \in 1..Len(_lines(sql)) : search_select_star(_lines(sql)[i])}

\* The findings are one L002 error for each matching line, in line order,
\* at the column cols gives for that line.
OnePerMatchingLine(sql, findings, cols) ==
    LET hit == MatchingLines(sql)
    IN  /\ Len(findings) = Cardinality(hit)
        /\ \A n \in 1..Len(findings) :
              /\ findings[n].rule_id = BuiltinId(2)
              /\ findings[n].severity = "error"
              /\ findings[n].line = nth_smallest(hit, n)
              /\ findings[n].col = cols[findings[n].line]

MatchCol(line) == MatchStart(line) + 1
FirstSelectCol(line) == FirstSelectText(line) + 1

\* C9 as stated: the enabled rule gives one error for each line with a match
\* and none for the others, at the column of the select of that match.
C9_ColumnOfMatch ==
    (call.op = "rule_no_select_star" /\ call.enabled) =>
        OnePerMatchingLine(call.sql, result.findings,
            [i \in MatchingLines(call.sql) |-> MatchCol(_lines(call.sql)[i])])

\* C9 amended: the enabled rule gives one error for each line with a match
\* and none for the others, at the column where the letters of select first
\* occur on the line, in either case, inside a word or not.
C9_ColumnOfFirstSelect ==
    (call.op = "rule_no_select_star" /\ call.enabled) =>
        OnePerMatchingLine(call.sql, result.findings,
            [i \in MatchingLines(call.sql) |-> FirstSelectCol(_lines(call.sql)[i])])

\* A finding whose line has the letters of select before the select it matches.
C9_Witness ==
    /\ call.op = "rule_no_select_star"
    /\ call.enabled
    /\ \E f \in Range(result.findings) :
          /\ f.col = FirstSelectCol(_lines(call.sql)[f.line])
          /\ f.col # MatchCol(_lines(call.sql)[f.line])

\* What the five evaluations return, one list after the other.
ConcatOfRules(sql, rules, state) ==
    rule_semicolon(sql, rules.semicolon)
        \o rule_no_select_star(sql, rules.select_star)
        \o rule_uppercase_keywords(sql, rules.upper_keywords)
        \o rule_typo_keywords(sql, rules.typo_keywords)
        \o run_custom_rules(sql, state).findings

\* C10: run_lint returns a permutation of the concatenated findings of the
\* four built-in rules and the custom-rule evaluator, duplicates included,
\* and the store is after the pass what it was before it.
C10_PermutationAndFrame ==
    LET all == ConcatOfRules(call.sql, call.rules, call.session)
    IN  LintReturned =>
            /\ session_state = call.session
            /\ Len(result.findings) = Len(all)
            /\ \A f \in Range(all) \cup Range(result.findings) :
                   Count(result.findings, f) = Count(all, f)

\* A returned list that holds the same finding twice.
C10_Witness ==
    /\ LintReturned
    /\ \E f \in Range(result.findings) : Count(result.findings, f) >= 2
    /\ session_state.custom_rules # <<>>

====
